---- MODULE Spec2Model ----
(***************************************************************************)
(* second-hand: the enrichment service layer (reverse-DNS service, GeoIP   *)
(* service, enrich_sources) as a state machine.                            *)
(*                                                                         *)
(* Python's None is the empty set and a present value x is {x}, so that    *)
(* optional values of any type compare without a type clash.               *)
(***************************************************************************)
EXTENDS Integers, Sequences, FiniteSets, TLC

VARIABLES
    env,          \* the process environment: SECOND_HAND_* variables (None = unset)
    now,          \* the monotonic clock the TTL caches read, in seconds
    sources,      \* the addresses of the sources chronyd reports
    dnsInstance,  \* DNSService._instance: 0 is None, else an index of dnsObjs
    dnsObjs,      \* every DNSService object constructed so far
    geoInstance,  \* GeoIPService._instance: 0 is None, else an index of geoObjs
    geoObjs,      \* every GeoIPService object constructed so far
    req,          \* per request: the enrich_sources coroutine and its tasks
    dnsFcAtReset, \* failure count last observable before DNSService.reset_instance
    geoFcAtReset, \* failure count last observable before GeoIPService.reset_instance
    fetch,        \* the fetch_chrony_data call and its daemon connection
    call          \* the last call of a formatting or rendering function

vars == <<env, now, sources, dnsInstance, dnsObjs, geoInstance, geoObjs, req,
          dnsFcAtReset, geoFcAtReset, fetch, call>>

----------------------------------------------------------------------------
(* Bounds of the model *)

NumRequests == 2
MaxFetches == 2
MaxSources == 2
MaxInstances == 2
MaxTicks == 1
TickStep == 3600

(* Optional values *)

None == {}

Some(x) == {x}

TheVal(o) == CHOOSE x \in o : TRUE

----------------------------------------------------------------------------
(* config.py *)

DefaultDnsTimeout == 3
DefaultDnsCacheTtl == 3600
DefaultDnsCacheMaxsize == 1024
DefaultDnsMaxConcurrent == 10

OrDefault(o, d) == IF o = None THEN d ELSE TheVal(o)

\* Settings(): each field is its SECOND_HAND_* variable when set, else its default.
\* The class has no GeoIP field, so SECOND_HAND_GEOIP_* variables are never read.
get_settings(e) ==
    [dns_timeout        |-> OrDefault(e.dns_timeout, DefaultDnsTimeout),
     dns_cache_ttl      |-> OrDefault(e.dns_cache_ttl, DefaultDnsCacheTtl),
     dns_cache_maxsize  |-> OrDefault(e.dns_cache_maxsize, DefaultDnsCacheMaxsize),
     dns_max_concurrent |-> OrDefault(e.dns_max_concurrent, DefaultDnsMaxConcurrent)]

\* The environments the process is run under.
Environments ==
    { [dns_timeout |-> None, dns_cache_ttl |-> None, dns_cache_maxsize |-> None,
       dns_max_concurrent |-> None, geoip_cache_ttl |-> None,
       geoip_cache_maxsize |-> None],
      [dns_timeout |-> Some(1), dns_cache_ttl |-> Some(1800),
       dns_cache_maxsize |-> Some(1), dns_max_concurrent |-> Some(1),
       geoip_cache_ttl |-> Some(1800), geoip_cache_maxsize |-> Some(1)] }

----------------------------------------------------------------------------
(* cachetools.TTLCache: a sequence of entries, least recently stored first *)

NoCache == << >>

\* `key in cache`: an entry that has not expired.
CacheContains(c, k, t) == \E i \in 1..Len(c) : c[i].key = k /\ t < c[i].expires

\* `cache[key]` for a key the cache contains.
CacheGet(c, k) == c[CHOOSE i \in 1..Len(c) : c[i].key = k].val

RECURSIVE DropOldest(_, _)
DropOldest(c, maxsize) ==
    IF Len(c) < maxsize \/ c = << >> THEN c ELSE DropOldest(Tail(c), maxsize)

\* `cache[key] = value`: expired entries go, the key's old entry goes, the
\* least recently stored entries go while the cache is full.
CacheSet(c, k, v, t, ttl, maxsize) ==
    LET live == SelectSeq(c, LAMBDA e : t < e.expires)
        had  == \E i \in 1..Len(live) : live[i].key = k
        rest == SelectSeq(live, LAMBDA e : e.key # k)
        room == IF had THEN rest ELSE DropOldest(rest, maxsize)
    IN  Append(room, [key |-> k, val |-> v, expires |-> t + ttl])

----------------------------------------------------------------------------
(* The addresses chronyd may report, and what the libraries answer for them *)

Addresses == {"8.8.8.8", "1.1.1.1", "192.168.1.1", "224.0.0.1", "bogus"}

NoFlags ==
    [is_private |-> FALSE, is_loopback |-> FALSE, is_link_local |-> FALSE,
     is_reserved |-> FALSE, is_multicast |-> FALSE]

\* ipaddress.ip_address(ip): None stands for ValueError, else the address's flags.
ip_address(ip) ==
    CASE ip = "8.8.8.8"     -> Some(NoFlags)
      [] ip = "1.1.1.1"     -> Some(NoFlags)
      [] ip = "192.168.1.1" -> Some([NoFlags EXCEPT !.is_private = TRUE])
      [] ip = "224.0.0.1"   -> Some([NoFlags EXCEPT !.is_multicast = TRUE])
      [] OTHER              -> None

\* The PTR name the resolver answers with for ip.
PTR(ip) ==
    CASE ip = "8.8.8.8"     -> "dns.google"
      [] ip = "1.1.1.1"     -> "one.one.one.one"
      [] ip = "192.168.1.1" -> "router.lan"
      [] ip = "224.0.0.1"   -> "all-systems.mcast.net"
      [] OTHER              -> "bogus.invalid"

\* The JSON body ip-api.com answers with for ip on success.
GeoData(ip) ==
    CASE ip = "8.8.8.8" -> [countryCode |-> Some("US"),
                            country |-> Some("United States")]
      [] ip = "1.1.1.1" -> [countryCode |-> Some("AU"),
                            country |-> Some("Australia")]
      [] OTHER          -> [countryCode |-> None, country |-> None]

\* How one resolver call ends: an answer, wait_for's TimeoutError, aiodns's
\* DNSError, or any other exception.
ResolverOutcomes == {"answer", "timeout", "dnserror", "exception"}

\* How one HTTP request ends: a status other than 200, a body whose status is
\* not "success", a "success" body, a TimeoutError, or any other exception.
HttpOutcomes == {"status_not_200", "api_fail", "success", "timeout", "exception"}

\* The source lists chronyd reports, up to the naming of the public
\* addresses: "1.1.1.1" is the second public address of a list, after
\* "8.8.8.8".
SourceLists ==
    {s \in UNION { [1..n -> Addresses] : n \in 1..MaxSources } :
        \A i \in 1..Len(s) :
            s[i] = "1.1.1.1" => \E j \in 1..(i - 1) : s[j] = "8.8.8.8"}

----------------------------------------------------------------------------
(* services/dns.py *)

ClassFailureCount == 0

NoArgs ==
    [timeout |-> None, cache_ttl |-> None, cache_maxsize |-> None,
     max_concurrent |-> None]

\* The arguments get_instance is called with.
ArgChoices ==
    { NoArgs,
      [timeout |-> Some(5), cache_ttl |-> Some(1800), cache_maxsize |-> Some(2),
       max_concurrent |-> Some(2)] }

DNSService_default_slots(args, e) ==
    LET settings == get_settings(e) IN
    [timeout        |-> IF args.timeout # None
                        THEN TheVal(args.timeout) ELSE settings.dns_timeout,
     cache_ttl      |-> IF args.cache_ttl # None
                        THEN TheVal(args.cache_ttl) ELSE settings.dns_cache_ttl,
     cache_maxsize  |-> IF args.cache_maxsize # None
                        THEN TheVal(args.cache_maxsize)
                        ELSE settings.dns_cache_maxsize,
     max_concurrent |-> IF args.max_concurrent # None
                        THEN TheVal(args.max_concurrent)
                        ELSE settings.dns_max_concurrent,
     cache          |-> NoCache,
     semaphore      |-> DefaultDnsMaxConcurrent,
     failure_count  |-> ClassFailureCount]

\* DNSService.__init__: each parameter is the argument when given, else the
\* setting read from the environment at this moment.
DNSService(args, e) ==
    LET settings == get_settings(e) IN
    [timeout        |-> IF args.timeout # None
                        THEN TheVal(args.timeout) ELSE settings.dns_timeout,
     cache_ttl      |-> IF args.cache_ttl # None
                        THEN TheVal(args.cache_ttl) ELSE settings.dns_cache_ttl,
     cache_maxsize  |-> IF args.cache_maxsize # None
                        THEN TheVal(args.cache_maxsize)
                        ELSE settings.dns_cache_maxsize,
     max_concurrent |-> IF args.max_concurrent # None
                        THEN TheVal(args.max_concurrent)
                        ELSE settings.dns_max_concurrent,
     cache          |-> NoCache,
     semaphore      |-> IF args.max_concurrent # None
                        THEN TheVal(args.max_concurrent)
                        ELSE settings.dns_max_concurrent,
     failure_count  |-> ClassFailureCount]

dns_get_instance_unshared(inst, objs, args, e) ==
    [objs |-> Append(objs, DNSService(args, e)), inst |-> Len(objs) + 1]

\* DNSService.get_instance: constructs only when _instance is None.
dns_get_instance(inst, objs, args, e) ==
    IF inst = 0
    THEN [objs |-> Append(objs, DNSService(args, e)), inst |-> Len(objs) + 1]
    ELSE [objs |-> objs, inst |-> inst]

reverse_lookup_streak(ip, kind, fc) ==
    CASE kind = "answer"    -> [raised |-> FALSE, ret |-> Some(PTR(ip)),
                                failure_count |-> 0]
      [] OTHER              -> [raised |-> FALSE, ret |-> None,
                                failure_count |-> fc + 1]

reverse_lookup_uncaught(ip, kind, fc) ==
    CASE kind = "answer"    -> [raised |-> FALSE, ret |-> Some(PTR(ip)),
                                failure_count |-> fc]
      [] kind = "timeout"   -> [raised |-> FALSE, ret |-> None,
                                failure_count |-> fc + 1]
      [] kind = "dnserror"  -> [raised |-> FALSE, ret |-> None,
                                failure_count |-> fc + 1]
      [] OTHER              -> [raised |-> TRUE, ret |-> None,
                                failure_count |-> fc]

\* reverse_lookup once the resolver call has ended with `kind`: what the caller
\* gets (raised, or the returned value) and the failure counter afterwards.
reverse_lookup(ip, kind, fc) ==
    CASE kind = "answer"    -> [raised |-> FALSE, ret |-> Some(PTR(ip)),
                                failure_count |-> fc]
      [] kind = "timeout"   -> [raised |-> FALSE, ret |-> None,
                                failure_count |-> fc + 1]
      [] kind = "dnserror"  -> [raised |-> FALSE, ret |-> None,
                                failure_count |-> fc + 1]
      [] OTHER              -> [raised |-> FALSE, ret |-> None,
                                failure_count |-> fc + 1]

cache_hit_stale(svc, ip, t) ==
    \E i \in 1..Len(svc.cache) : svc.cache[i].key = ip

\* cached_reverse_lookup up to its await: TRUE when the resolver is not called.
cache_hit(svc, ip, t) == CacheContains(svc.cache, ip, t)

semaphore_ignored(svc) == TRUE

\* limited_lookup may enter `async with self._semaphore`.
semaphore_free(svc) == svc.semaphore > 0

----------------------------------------------------------------------------
(* services/geoip.py *)

GeoClassFailureCount == 0
GeoDefaultCacheTtl == 3600
GeoDefaultCacheMaxsize == 1024

GeoIPResult(ip, private, code, name) ==
    [ip_address |-> ip, is_private |-> private, country_code |-> code,
     country_name |-> name]

\* GeoIPService.__init__
GeoIPService(cache_ttl, cache_maxsize) ==
    [cache_ttl |-> cache_ttl, cache_maxsize |-> cache_maxsize, cache |-> NoCache,
     failure_count |-> GeoClassFailureCount]

geo_construct_configured(e) ==
    GeoIPService(OrDefault(e.geoip_cache_ttl, GeoDefaultCacheTtl),
                 OrDefault(e.geoip_cache_maxsize, GeoDefaultCacheMaxsize))

\* `cls()` in GeoIPService.get_instance: no argument is passed and no setting
\* is read, whatever the environment e holds.
geo_construct(e) == GeoIPService(GeoDefaultCacheTtl, GeoDefaultCacheMaxsize)

\* GeoIPService.get_instance: constructs only when _instance is None.
geo_get_instance(inst, objs, e) ==
    IF inst = 0
    THEN [objs |-> Append(objs, geo_construct(e)), inst |-> Len(objs) + 1]
    ELSE [objs |-> objs, inst |-> inst]

is_private_ip_unparsed_public(ip) ==
    LET parsed == ip_address(ip) IN
    IF parsed = None
    THEN FALSE
    ELSE LET a == TheVal(parsed) IN
         a.is_private \/ a.is_loopback \/ a.is_link_local \/ a.is_reserved
             \/ a.is_multicast

\* GeoIPService._is_private_ip
is_private_ip(ip) ==
    LET parsed == ip_address(ip) IN
    IF parsed = None
    THEN TRUE
    ELSE LET a == TheVal(parsed) IN
         a.is_private \/ a.is_loopback \/ a.is_link_local \/ a.is_reserved
             \/ a.is_multicast

lookup_begin_retries_failures(svc, ip, t) ==
    IF CacheContains(svc.cache, ip, t)
       /\ (CacheGet(svc.cache, ip).is_private
            \/ CacheGet(svc.cache, ip).country_code # None)
    THEN [how |-> "hit", result |-> Some(CacheGet(svc.cache, ip)), svc |-> svc]
    ELSE IF is_private_ip(ip)
    THEN LET result == GeoIPResult(ip, TRUE, None, None) IN
         [how |-> "private", result |-> Some(result),
          svc |-> [svc EXCEPT !.cache = CacheSet(svc.cache, ip, result, t,
                                                  svc.cache_ttl, svc.cache_maxsize)]]
    ELSE [how |-> "http", result |-> None, svc |-> svc]

\* lookup up to its first await: a cache hit, the private short-circuit, or an
\* HTTP request sent ("http": no result yet).
lookup_begin(svc, ip, t) ==
    IF CacheContains(svc.cache, ip, t)
    THEN [how |-> "hit", result |-> Some(CacheGet(svc.cache, ip)), svc |-> svc]
    ELSE IF is_private_ip(ip)
    THEN LET result == GeoIPResult(ip, TRUE, None, None) IN
         [how |-> "private", result |-> Some(result),
          svc |-> [svc EXCEPT !.cache = CacheSet(svc.cache, ip, result, t,
                                                  svc.cache_ttl, svc.cache_maxsize)]]
    ELSE [how |-> "http", result |-> None, svc |-> svc]

\* One exit path of lookup after the request was sent: the failure counter is
\* incremented or not, and the result is stored in the cache and returned.
lookup_exit(svc, ip, result, counted, t) ==
    [raised |-> FALSE, result |-> result,
     svc |-> [svc EXCEPT
                !.failure_count = IF counted THEN @ + 1 ELSE @,
                !.cache = CacheSet(svc.cache, ip, result, t,
                                   svc.cache_ttl, svc.cache_maxsize)]]

lookup_end_status_uncounted(svc, ip, kind, t) ==
    CASE kind = "success" ->
            lookup_exit(svc, ip, GeoIPResult(ip, FALSE, GeoData(ip).countryCode,
                                             GeoData(ip).country), FALSE, t)
      [] kind = "status_not_200" ->
            lookup_exit(svc, ip, GeoIPResult(ip, FALSE, None, None), FALSE, t)
      [] OTHER ->
            lookup_exit(svc, ip, GeoIPResult(ip, FALSE, None, None), TRUE, t)

lookup_end_exception_escapes(svc, ip, kind, t) ==
    CASE kind = "success" ->
            lookup_exit(svc, ip, GeoIPResult(ip, FALSE, GeoData(ip).countryCode,
                                             GeoData(ip).country), FALSE, t)
      [] kind = "exception" ->
            [raised |-> TRUE, result |-> GeoIPResult(ip, FALSE, None, None),
             svc |-> svc]
      [] OTHER ->
            lookup_exit(svc, ip, GeoIPResult(ip, FALSE, None, None), TRUE, t)

\* lookup once its HTTP request has ended with `kind`.
lookup_end(svc, ip, kind, t) ==
    CASE kind = "status_not_200" ->
            lookup_exit(svc, ip, GeoIPResult(ip, FALSE, None, None), TRUE, t)
      [] kind = "api_fail" ->
            lookup_exit(svc, ip, GeoIPResult(ip, FALSE, None, None), TRUE, t)
      [] kind = "success" ->
            lookup_exit(svc, ip, GeoIPResult(ip, FALSE, GeoData(ip).countryCode,
                                             GeoData(ip).country), FALSE, t)
      [] kind = "timeout" ->
            lookup_exit(svc, ip, GeoIPResult(ip, FALSE, None, None), TRUE, t)
      [] OTHER ->
            lookup_exit(svc, ip, GeoIPResult(ip, FALSE, None, None), TRUE, t)

----------------------------------------------------------------------------
(* services/chrony.py: ChronyData and fetch_chrony_data *)

ConnectMessage == "Unable to connect to chronyd. Is the service running?"

PermissionMessage == "Permission denied. Add your user to the chrony group."

\* ChronyData(tracking, sources, source_stats, rtc, error)
ChronyData(tracking, srcs, source_stats, rtc, error) ==
    [tracking |-> tracking, sources |-> srcs, source_stats |-> source_stats,
     rtc |-> rtc, error |-> error]

is_connected_whatever_error(d) == d.tracking # None

\* ChronyData.is_connected
is_connected(d) == d.error = None /\ d.tracking # None

\* ChronyData.is_synchronized; TrackingStatus.is_synchronized() is the
\* `synchronized` field of the tracking value.
is_synchronized(d) == d.tracking # None /\ TheVal(d.tracking).synchronized

\* What the daemon client hands back from its four fetches.
TrackingValues == {[synchronized |-> TRUE], [synchronized |-> FALSE]}

SourcesValues == {<< >>} \cup SourceLists

SourceStatsValues == {<< >>, <<"stats">>}

RtcValues == {None, Some("rtc")}

\* The errors the daemon client raises.  ChronyDataError is the
\* data-unavailable kind.
ClientErrors ==
    {"ChronyConnectionError", "ChronyLibraryError", "ChronyPermissionError",
     "ChronyDataError"}

\* The fetches inside the `with` block, in the order of the code, and for
\* each the values it can return.
FetchSteps == <<"tracking", "sources", "source_stats", "rtc">>

StepValues(step) ==
    CASE step = "tracking"     -> {Some(v) : v \in TrackingValues}
      [] step = "sources"      -> SourcesValues
      [] step = "source_stats" -> SourceStatsValues
      [] OTHER                 -> RtcValues

\* No call in progress, nothing fetched, no connection.
NoFetch ==
    [pc |-> "idle", calls |-> 0, conn |-> "none", opened |-> 0, at |-> 0,
     tracking |-> None, sources |-> << >>, source_stats |-> << >>,
     rtc |-> None, exc |-> None, result |-> None]

except_keeps_fetched(f) ==
    CASE f.exc = None ->
            [raised |-> FALSE,
             result |-> ChronyData(f.tracking, f.sources, f.source_stats, f.rtc,
                                   None)]
      [] f.exc \in {Some("ChronyConnectionError"), Some("ChronyLibraryError")} ->
            [raised |-> FALSE,
             result |-> ChronyData(f.tracking, f.sources, f.source_stats, None,
                                   Some(ConnectMessage))]
      [] f.exc = Some("ChronyPermissionError") ->
            [raised |-> FALSE,
             result |-> ChronyData(None, << >>, << >>, None,
                                   Some(PermissionMessage))]
      [] OTHER ->
            [raised |-> TRUE, result |-> ChronyData(None, << >>, << >>, None, None)]

except_one_message(f) ==
    CASE f.exc = None ->
            [raised |-> FALSE,
             result |-> ChronyData(f.tracking, f.sources, f.source_stats, f.rtc,
                                   None)]
      [] f.exc \in {Some("ChronyConnectionError"), Some("ChronyLibraryError"),
                    Some("ChronyPermissionError")} ->
            [raised |-> FALSE,
             result |-> ChronyData(None, << >>, << >>, None, Some(ConnectMessage))]
      [] OTHER ->
            [raised |-> TRUE, result |-> ChronyData(None, << >>, << >>, None, None)]

\* The try statement once the `with` block is left: without an exception the
\* final return, else the matching except clause, else the exception goes on
\* to the caller.
try_except(f) ==
    CASE f.exc = None ->
            [raised |-> FALSE,
             result |-> ChronyData(f.tracking, f.sources, f.source_stats, f.rtc,
                                   None)]
      [] f.exc \in {Some("ChronyConnectionError"), Some("ChronyLibraryError")} ->
            [raised |-> FALSE,
             result |-> ChronyData(None, << >>, << >>, None, Some(ConnectMessage))]
      [] f.exc = Some("ChronyPermissionError") ->
            [raised |-> FALSE,
             result |-> ChronyData(None, << >>, << >>, None,
                                   Some(PermissionMessage))]
      [] OTHER ->
            [raised |-> TRUE, result |-> ChronyData(None, << >>, << >>, None, None)]

with_exit_on_success_only(f) == IF f.exc = None THEN "closed" ELSE f.conn

\* Leaving the `with` block releases the connection that was entered, with
\* or without an exception.
with_exit(f) == IF f.conn = "open" THEN "closed" ELSE f.conn

\* What fetch_chrony_data does not touch.
serviceVars ==
    <<env, now, sources, dnsInstance, dnsObjs, geoInstance, geoObjs, req,
      dnsFcAtReset, geoFcAtReset, call>>

\* fetch_chrony_data is called.
FetchCall ==
    /\ fetch.pc \in {"idle", "returned", "raised"}
    /\ fetch.calls < MaxFetches
    /\ fetch' = [NoFetch EXCEPT !.pc = "connect", !.calls = fetch.calls + 1]
    /\ UNCHANGED serviceVars

\* `with ChronyConnection(socket_path) as conn` is entered.
FetchConnect ==
    /\ fetch.pc = "connect"
    /\ fetch' = [fetch EXCEPT !.pc = "fetch", !.conn = "open",
                              !.opened = @ + 1, !.at = 1]
    /\ UNCHANGED serviceVars

\* Opening the connection raises: the block is not entered.
FetchConnectFails(e) ==
    /\ fetch.pc = "connect"
    /\ fetch' = [fetch EXCEPT !.pc = "exit", !.exc = Some(e)]
    /\ UNCHANGED serviceVars

\* The next fetch of the block returns a value.
FetchGet ==
    /\ fetch.pc = "fetch"
    /\ \E v \in StepValues(FetchSteps[fetch.at]) :
          fetch' = [fetch EXCEPT
                      ![FetchSteps[fetch.at]] = v,
                      !.at = IF fetch.at = Len(FetchSteps) THEN 0 ELSE @ + 1,
                      !.pc = IF fetch.at = Len(FetchSteps) THEN "exit" ELSE @]
    /\ UNCHANGED serviceVars

\* The next fetch of the block raises e.
FetchGetFails(e) ==
    /\ fetch.pc = "fetch"
    /\ fetch' = [fetch EXCEPT !.pc = "exit", !.exc = Some(e)]
    /\ UNCHANGED serviceVars

\* The `with` block is left and the try statement ends: the call returns a
\* ChronyData or raises.
FetchExit ==
    LET out == try_except(fetch) IN
    /\ fetch.pc = "exit"
    /\ fetch' = [fetch EXCEPT
                   !.conn = with_exit(fetch),
                   !.pc = IF out.raised THEN "raised" ELSE "returned",
                   !.result = IF out.raised THEN None ELSE Some(out.result)]
    /\ UNCHANGED serviceVars

FetchStep ==
    \/ FetchCall
    \/ FetchConnect
    \/ \E e \in ClientErrors : FetchConnectFails(e)
    \/ FetchGet
    \/ \E e \in ClientErrors : FetchGetFails(e)
    \/ FetchExit

----------------------------------------------------------------------------
(* utils/__init__.py: health verdicts and the reachability display *)

\* _HEALTH_THRESHOLDS as (warning, error) pairs.  The table's values are
\* decimal fractions with at most three places; they and the values compared
\* with them are counted here in thousandths of the metric's unit.
HEALTH_THRESHOLDS ==
    [offset |-> <<10, 100>>, rms_offset |-> <<1, 10>>,
     frequency |-> <<10000, 50000>>, skew |-> <<1000, 5000>>,
     root_delay |-> <<50, 100>>, root_dispersion |-> <<10, 50>>]

\* _STRATUM_THRESHOLDS
STRATUM_THRESHOLDS == <<3, 8>>

abs(value) == IF value < 0 THEN 0 - value ELSE value

stratum_status_inclusive(int_value) ==
    IF int_value = 16 THEN "error"
    ELSE IF int_value >= STRATUM_THRESHOLDS[2] THEN "error"
    ELSE IF int_value >= STRATUM_THRESHOLDS[1] THEN "warning"
    ELSE "healthy"

\* get_health_status, the stratum branch (int_value is a whole number).
stratum_status(int_value) ==
    IF int_value = 16 THEN "error"
    ELSE IF int_value > STRATUM_THRESHOLDS[2] THEN "error"
    ELSE IF int_value > STRATUM_THRESHOLDS[1] THEN "warning"
    ELSE "healthy"

reachability_status_any_poll(int_value) ==
    IF int_value < 1 THEN "error"
    ELSE IF int_value < 255 THEN "warning"
    ELSE "healthy"

\* get_health_status, the reachability branch: 0o177 is 127, 0o377 is 255.
reachability_status(int_value) ==
    IF int_value < 127 THEN "error"
    ELSE IF int_value < 255 THEN "warning"
    ELSE "healthy"

threshold_status_signed(metric, value) ==
    IF value >= HEALTH_THRESHOLDS[metric][2] THEN "error"
    ELSE IF value >= HEALTH_THRESHOLDS[metric][1] THEN "warning"
    ELSE "healthy"

\* get_health_status, the branch of the metrics in the table.
threshold_status(metric, value) ==
    LET warning_threshold == HEALTH_THRESHOLDS[metric][1]
        error_threshold == HEALTH_THRESHOLDS[metric][2]
        abs_value == abs(value)
    IN  IF abs_value >= error_threshold THEN "error"
        ELSE IF abs_value >= warning_threshold THEN "warning"
        ELSE "healthy"

\* get_health_status(metric, value)
get_health_status(metric, value) ==
    IF metric = "stratum" THEN stratum_status(value)
    ELSE IF metric = "reachability" THEN reachability_status(value)
    ELSE IF metric \in DOMAIN HEALTH_THRESHOLDS THEN threshold_status(metric, value)
    ELSE "healthy"

format_reachability_visual_newest_first(value) ==
    [k \in 1..8 |-> ((value \div 2^(k - 1)) % 2) = 1]

\* format_reachability_visual(value): element k of the list is Python's
\* index i = k - 1, (value >> (7 - i)) & 1 == 1.
format_reachability_visual(value) ==
    [k \in 1..8 |-> ((value \div 2^(7 - (k - 1))) % 2) = 1]

----------------------------------------------------------------------------
(* components: the sections of the dashboard's main content *)

\* error_banner(message)
error_banner(message) == [section |-> "error_banner", shows |-> message]

\* tracking_section(data): the four placeholder boxes when tracking is None,
\* the full grid otherwise.
tracking_section(data) ==
    IF data.tracking = None
    THEN [section |-> "tracking", shows |-> "Unknown"]
    ELSE IF TheVal(data.tracking).synchronized
         THEN [section |-> "tracking", shows |-> "Synchronized"]
         ELSE [section |-> "tracking", shows |-> "Not Sync"]

\* sources_table(sources): enriched or plain rows, or the empty notice.
sources_table(rows) == [section |-> "sources", shows |-> rows]

\* stats_table(stats)
stats_table(stats) == [section |-> "stats", shows |-> stats]

\* rtc_section(rtc)
rtc_section(rtc) ==
    IF rtc = None
    THEN [section |-> "rtc", shows |-> "RTC tracking not configured"]
    ELSE [section |-> "rtc", shows |-> TheVal(rtc)]

main_content_tracking_if_connected(data, enriched_sources) ==
    LET banner == IF data.error # None /\ TheVal(data.error) # ""
                  THEN <<error_banner(TheVal(data.error))>> ELSE << >>
        srcs == IF enriched_sources # None /\ TheVal(enriched_sources) # << >>
                THEN <<sources_table(TheVal(enriched_sources))>>
                ELSE IF data.sources # << >>
                     THEN <<sources_table(data.sources)>> ELSE << >>
        stats == IF data.source_stats # << >>
                 THEN <<stats_table(data.source_stats)>> ELSE << >>
    IN  banner \o
        (IF is_connected(data)
         THEN <<tracking_section(data)>> \o srcs \o stats \o
              <<rtc_section(data.rtc)>>
         ELSE << >>)

\* _main_content(data, enriched_sources): the sections in display order.
\* enriched_sources is None or Some(list); a message or a list counts as
\* true in an `if` when it is not empty.
main_content(data, enriched_sources) ==
    LET banner == IF data.error # None /\ TheVal(data.error) # ""
                  THEN <<error_banner(TheVal(data.error))>> ELSE << >>
        srcs == IF enriched_sources # None /\ TheVal(enriched_sources) # << >>
                THEN <<sources_table(TheVal(enriched_sources))>>
                ELSE IF data.sources # << >>
                     THEN <<sources_table(data.sources)>> ELSE << >>
        stats == IF data.source_stats # << >>
                 THEN <<stats_table(data.source_stats)>> ELSE << >>
    IN  banner \o <<tracking_section(data)>> \o
        (IF is_connected(data)
         THEN srcs \o stats \o <<rtc_section(data.rtc)>>
         ELSE << >>)

\* The metrics get_health_status is called with, one of them not known to it.
Metrics == {"stratum", "reachability", "jitter"} \cup DOMAIN HEALTH_THRESHOLDS

\* Values around every threshold of a metric, of both signs.
MetricValues(metric) ==
    CASE metric = "stratum" -> 0..16
      [] metric = "reachability" -> 0..255
      [] metric \in DOMAIN HEALTH_THRESHOLDS ->
            LET near == UNION {{t - 1, t, t + 1} :
                                 t \in {HEALTH_THRESHOLDS[metric][1],
                                        HEALTH_THRESHOLDS[metric][2]}}
            IN  {0} \cup near \cup {0 - v : v \in near}
      [] OTHER -> {0 - 100000, 0 - 1, 0, 1, 16, 255, 100000}

\* The ChronyData values the dashboard is rendered from, the ones
\* fetch_chrony_data cannot return included.
RenderedData ==
    {ChronyData(t, s, st, r, e) :
        t \in {None} \cup {Some(v) : v \in TrackingValues},
        s \in {<< >>, <<"8.8.8.8">>},
        st \in SourceStatsValues,
        r \in RtcValues,
        e \in {None, Some(""), Some(ConnectMessage)}}

\* The enriched_sources argument: None, an empty list, or enriched rows.
EnrichedValues == {None, Some(<< >>), Some(<<"Google (8.8.8.8)">>)}

\* No formatting or rendering function has been called.
NoCall ==
    [fn |-> "none", metric |-> "", value |-> 0, data |-> None,
     enriched_sources |-> None, status |-> "", bits |-> << >>,
     sections |-> << >>]

\* Everything but `call`.
stateVars ==
    <<env, now, sources, dnsInstance, dnsObjs, geoInstance, geoObjs, req,
      dnsFcAtReset, geoFcAtReset, fetch>>

\* get_health_status(metric, value) is called and returns.
GetHealthStatus(metric, value) ==
    /\ call' = [NoCall EXCEPT !.fn = "get_health_status", !.metric = metric,
                              !.value = value,
                              !.status = get_health_status(metric, value)]
    /\ UNCHANGED stateVars

\* format_reachability_visual(value) is called and returns.
FormatReachabilityVisual(value) ==
    /\ call' = [NoCall EXCEPT !.fn = "format_reachability_visual",
                              !.value = value,
                              !.bits = format_reachability_visual(value)]
    /\ UNCHANGED stateVars

\* _main_content(data, enriched_sources) is called and returns.
MainContent(data, enriched_sources) ==
    /\ call' = [NoCall EXCEPT !.fn = "_main_content", !.data = Some(data),
                              !.enriched_sources = enriched_sources,
                              !.sections = main_content(data, enriched_sources)]
    /\ UNCHANGED stateVars

PureStep ==
    \/ \E metric \in Metrics : \E value \in MetricValues(metric) :
          GetHealthStatus(metric, value)
    \/ \E value \in 0..255 : FormatReachabilityVisual(value)
    \/ \E data \in RenderedData : \E e \in EnrichedValues : MainContent(data, e)

----------------------------------------------------------------------------
(* The requests: each runs enrich_sources once over the reported sources *)

Requests == 1..NumRequests

Idle ==
    [pc |-> "idle", ips |-> << >>, dns |-> 0, geo |-> 0, task |-> << >>,
     host |-> << >>, resolved |-> {}, gi |-> 0, inflight |-> FALSE,
     geo_results |-> << >>, requested |-> {},
     route |-> "none", status |-> 0, message |-> None]

AsDictOfFirst(ips, vals) ==
    [ip \in {ips[i] : i \in 1..Len(ips)} |-> vals[1]]

\* dict(results): for an address that occurs more than once the last pair wins.
AsDict(ips, vals) ==
    [ip \in {ips[i] : i \in 1..Len(ips)} |->
        vals[CHOOSE i \in 1..Len(ips) :
                ips[i] = ip /\ \A j \in 1..Len(ips) : ips[j] = ip => j <= i]]

Init ==
    /\ env \in Environments
    /\ now = 0
    /\ sources \in SourceLists
    /\ dnsInstance = 0
    /\ dnsObjs = << >>
    /\ geoInstance = 0
    /\ geoObjs = << >>
    /\ req = [r \in Requests |-> Idle]
    /\ dnsFcAtReset = ClassFailureCount
    /\ geoFcAtReset = GeoClassFailureCount
    /\ fetch = NoFetch
    /\ call = NoCall

\* The clock advances.
Tick ==
    /\ now < MaxTicks * TickStep
    /\ now' = now + TickStep
    /\ UNCHANGED <<call, fetch, env, sources, dnsInstance, dnsObjs, geoInstance, geoObjs, req,
                   dnsFcAtReset, geoFcAtReset>>

\* The operator changes the environment; only a later Settings() sees it.
SetEnv(e) ==
    /\ e # env
    /\ env' = e
    /\ UNCHANGED <<call, fetch, now, sources, dnsInstance, dnsObjs, geoInstance, geoObjs, req,
                   dnsFcAtReset, geoFcAtReset>>

\* DNSService.get_instance(...) called directly with some arguments.
DnsGetInstance(args) ==
    LET got == dns_get_instance(dnsInstance, dnsObjs, args, env) IN
    /\ dnsInstance # 0 \/ Len(dnsObjs) < MaxInstances
    /\ dnsObjs' = got.objs
    /\ dnsInstance' = got.inst
    /\ UNCHANGED <<call, fetch, env, now, sources, geoInstance, geoObjs, req, dnsFcAtReset,
                   geoFcAtReset>>

\* DNSService.reset_instance
DnsResetInstance ==
    /\ dnsInstance # 0
    /\ dnsInstance' = 0
    /\ dnsFcAtReset' = dnsObjs[dnsInstance].failure_count
    /\ UNCHANGED <<call, fetch, env, now, sources, dnsObjs, geoInstance, geoObjs, req,
                   geoFcAtReset>>

\* GeoIPService.get_instance() called directly (the application's startup).
GeoGetInstance ==
    LET got == geo_get_instance(geoInstance, geoObjs, env) IN
    /\ geoInstance # 0 \/ Len(geoObjs) < MaxInstances
    /\ geoObjs' = got.objs
    /\ geoInstance' = got.inst
    /\ UNCHANGED <<call, fetch, env, now, sources, dnsInstance, dnsObjs, req, dnsFcAtReset,
                   geoFcAtReset>>

\* GeoIPService.reset_instance (the application's shutdown, test isolation).
GeoResetInstance ==
    /\ geoInstance # 0
    /\ geoInstance' = 0
    /\ geoFcAtReset' = geoObjs[geoInstance].failure_count
    /\ UNCHANGED <<call, fetch, env, now, sources, dnsInstance, dnsObjs, geoObjs, req,
                   dnsFcAtReset>>

\* limited_lookup when it runs for task i: it waits when the semaphore has no
\* slot; else it enters and cached_reverse_lookup runs up to its await: a
\* cache hit returns at once (the slot is given back before anything else
\* runs), a miss calls the resolver and keeps the slot.
limited_lookup_begin_slot_not_taken(st, ips, i, t) ==
    IF ~semaphore_free(st.svc)
    THEN [st EXCEPT !.task[i] = "waiting"]
    ELSE IF cache_hit(st.svc, ips[i], t)
    THEN [st EXCEPT !.task[i] = "done",
                    !.host[i] = CacheGet(st.svc.cache, ips[i])]
    ELSE [st EXCEPT !.task[i] = "resolving",
                    !.resolved = @ \cup {i}]

limited_lookup_begin(st, ips, i, t) ==
    IF ~semaphore_free(st.svc)
    THEN [st EXCEPT !.task[i] = "waiting"]
    ELSE IF cache_hit(st.svc, ips[i], t)
    THEN [st EXCEPT !.task[i] = "done",
                    !.host[i] = CacheGet(st.svc.cache, ips[i])]
    ELSE [st EXCEPT !.task[i] = "resolving",
                    !.resolved = @ \cup {i},
                    !.svc.semaphore = @ - 1]

\* gather's tasks run one after the other, in the order of the addresses,
\* each up to its first suspension.
RECURSIVE gather_begin(_, _, _, _)
gather_begin(st, ips, i, t) ==
    IF i > Len(ips)
    THEN st
    ELSE gather_begin(limited_lookup_begin(st, ips, i, t), ips, i + 1, t)

\* enrich_sources(srcs) up to its first suspension: both singletons are
\* fetched, the addresses extracted, and batch_reverse_lookup starts one
\* limited_lookup task per address.  q0 is the request's record so far.
enrich_sources_begin(r, srcs, q0) ==
    LET d == dns_get_instance(dnsInstance, dnsObjs, NoArgs, env)
        g == geo_get_instance(geoInstance, geoObjs, env)
        n == Len(srcs)
        st == gather_begin([svc |-> d.objs[d.inst],
                            task |-> [i \in 1..n |-> "created"],
                            host |-> [i \in 1..n |-> None],
                            resolved |-> {}], srcs, 1, now)
    IN  /\ dnsInstance # 0 \/ Len(dnsObjs) < MaxInstances
        /\ geoInstance # 0 \/ Len(geoObjs) < MaxInstances
        /\ dnsObjs' = [d.objs EXCEPT ![d.inst] = st.svc]
        /\ dnsInstance' = d.inst
        /\ geoObjs' = g.objs
        /\ geoInstance' = g.inst
        /\ req' = [req EXCEPT ![r] =
                     [q0 EXCEPT !.pc = "dns", !.ips = srcs,
                                !.dns = d.inst, !.geo = g.inst,
                                !.task = st.task, !.host = st.host,
                                !.resolved = st.resolved]]

\* A request calls enrich_sources with the reported sources.
EnrichStart(r) ==
    /\ req[r].pc = "idle"
    /\ \A p \in Requests : p < r => req[p].pc # "idle"
    /\ enrich_sources_begin(r, sources, Idle)
    /\ UNCHANGED <<call, fetch, env, now, sources, dnsFcAtReset, geoFcAtReset>>

\* A task that waited for the semaphore gets a slot and runs on.
DnsAcquire(r, i) ==
    LET q == req[r]
        st == limited_lookup_begin([svc |-> dnsObjs[q.dns], task |-> q.task,
                                    host |-> q.host, resolved |-> q.resolved],
                                   q.ips, i, now)
    IN  /\ i \in 1..Len(q.task)
        /\ q.task[i] = "waiting"
        /\ st.task[i] # "waiting"
        /\ dnsObjs' = [dnsObjs EXCEPT ![q.dns] = st.svc]
        /\ req' = [req EXCEPT ![r].task = st.task, ![r].host = st.host,
                              ![r].resolved = st.resolved]
        /\ UNCHANGED <<call, fetch, env, now, sources, dnsInstance, geoInstance, geoObjs,
                       dnsFcAtReset, geoFcAtReset>>

\* cached_reverse_lookup after reverse_lookup returned: the outcome is stored,
\* None included.
cache_store(svc, ip, hostname, t) ==
    CacheSet(svc.cache, ip, hostname, t, svc.cache_ttl, svc.cache_maxsize)

semaphore_exit_on_answer(svc, out) ==
    IF out.ret = None THEN svc.semaphore ELSE svc.semaphore + 1

\* limited_lookup leaves `async with self._semaphore`, whatever
\* cached_reverse_lookup returned or raised: the slot is given back.
semaphore_exit(svc, out) == svc.semaphore + 1

\* The resolver call of task i ends: reverse_lookup returns, the outcome is
\* cached, limited_lookup leaves the semaphore and the task is done.  An
\* exception that escaped would leave the semaphore too and make gather raise.
DnsComplete(r, i, kind) ==
    LET q == req[r]
        svc == dnsObjs[q.dns]
        ip == q.ips[i]
        out == reverse_lookup(ip, kind, svc.failure_count)
    IN  /\ i \in 1..Len(q.task)
        /\ q.task[i] = "resolving"
        /\ IF out.raised
           THEN /\ dnsObjs' = [dnsObjs EXCEPT
                                 ![q.dns].failure_count = out.failure_count,
                                 ![q.dns].semaphore = semaphore_exit(svc, out)]
                /\ req' = [req EXCEPT ![r].task[i] = "done",
                                      ![r].pc = IF @ = "dns" THEN "raised" ELSE @]
           ELSE /\ dnsObjs' = [dnsObjs EXCEPT
                                 ![q.dns].failure_count = out.failure_count,
                                 ![q.dns].cache = cache_store(svc, ip, out.ret, now),
                                 ![q.dns].semaphore = semaphore_exit(svc, out)]
                /\ req' = [req EXCEPT ![r].task[i] = "done",
                                      ![r].host[i] = out.ret]
        /\ UNCHANGED <<call, fetch, env, now, sources, dnsInstance, geoInstance, geoObjs,
                       dnsFcAtReset, geoFcAtReset>>

RECURSIVE batch_lookup_gathered(_, _, _)
batch_lookup_gathered(st, ips, t) ==
    IF st.gi >= Len(ips)
    THEN st
    ELSE LET b == lookup_begin(st.svc, ips[st.gi + 1], t) IN
         IF b.how = "http"
         THEN [st EXCEPT !.inflight = TRUE,
                         !.requested = @ \cup
                            {k \in (st.gi + 1)..Len(ips) :
                                lookup_begin(st.svc, ips[k], t).how = "http"}]
         ELSE batch_lookup_gathered(
                  [st EXCEPT !.svc = b.svc, !.gi = @ + 1,
                             !.geo_results = Append(@, TheVal(b.result))],
                  ips, t)

\* batch_lookup's loop from address gi + 1 on, up to its next suspension:
\* lookup returns at once for a cache hit and for a private address, and
\* suspends in the HTTP request otherwise.
RECURSIVE batch_lookup_run(_, _, _)
batch_lookup_run(st, ips, t) ==
    IF st.gi >= Len(ips)
    THEN st
    ELSE LET b == lookup_begin(st.svc, ips[st.gi + 1], t) IN
         IF b.how = "http"
         THEN [st EXCEPT !.inflight = TRUE, !.requested = @ \cup {st.gi + 1}]
         ELSE batch_lookup_run(
                  [st EXCEPT !.svc = b.svc, !.gi = @ + 1,
                             !.geo_results = Append(@, TheVal(b.result))],
                  ips, t)

\* The code points of the strings that occur as country codes.
Chars(s) ==
    CASE s = "US"  -> <<85, 83>>
      [] s = "AU"  -> <<65, 85>>
      [] s = "us"  -> <<117, 115>>
      [] s = "U"   -> <<85>>
      [] s = "USA" -> <<85, 83, 65>>
      [] OTHER     -> << >>

\* str.upper() of one character, as code points: a..z map to A..Z, the sharp
\* s (223) maps to the two characters "SS", anything else is kept.
upper(c) ==
    IF c \in 97..122 THEN <<c - 32>>
    ELSE IF c = 223 THEN <<83, 83>>
    ELSE <<c>>

\* The offset 0x1F1A5 from an ASCII capital to its regional indicator symbol.
RegionalIndicatorOffset == 127397

\* The largest code point chr() accepts, 0x10FFFF.
MaxCodePoint == 1114111

\* country_code_to_flag: the empty string for None, for the empty string and
\* for a length other than 2; else the two regional indicator symbols, or the
\* empty string when ord() or chr() raises.
country_code_to_flag(country_code) ==
    IF country_code = None \/ Len(Chars(TheVal(country_code))) # 2
    THEN << >>
    ELSE LET cs == Chars(TheVal(country_code)) IN
         IF \E i \in 1..2 : \/ Len(upper(cs[i])) # 1
                             \/ upper(cs[i])[1] + RegionalIndicatorOffset > MaxCodePoint
         THEN << >>
         ELSE [i \in 1..2 |-> upper(cs[i])[1] + RegionalIndicatorOffset]

\* EnrichedSource.display_name, as the pieces of the formatted string.
display_name(e) ==
    IF e.hostname # None /\ TheVal(e.hostname) # ""
    THEN <<TheVal(e.hostname), " (", e.source, ")">>
    ELSE <<e.source>>

join_reversed(ips, host, geo_results) ==
    LET hostnames == AsDict(ips, host)
        geo == AsDict(ips, geo_results)
    IN  [i \in 1..Len(ips) |->
            LET ip == ips[Len(ips) + 1 - i] IN
            [source |-> ip,
             hostname |-> hostnames[ip],
             country_code |-> geo[ip].country_code,
             country_name |-> geo[ip].country_name,
             country_flag |-> country_code_to_flag(geo[ip].country_code)]]

\* The join of enrich_sources: one EnrichedSource per source, from the two
\* dictionaries.
join(ips, host, geo_results) ==
    LET hostnames == AsDict(ips, host)
        geo == AsDict(ips, geo_results)
    IN  [i \in 1..Len(ips) |->
            [source |-> ips[i],
             hostname |-> hostnames[ips[i]],
             country_code |-> geo[ips[i]].country_code,
             country_name |-> geo[ips[i]].country_name,
             country_flag |-> country_code_to_flag(geo[ips[i]].country_code)]]

\* enrich_sources from the start of the GeoIP batch, or from the return of
\* an HTTP request, up to the next HTTP request or to its return ("done").
EnrichRun(r, st) ==
    LET q == req[r]
        run == batch_lookup_run(st, q.ips, now)
    IN  /\ geoObjs' = [geoObjs EXCEPT ![q.geo] = run.svc]
        /\ req' = [req EXCEPT
                     ![r].gi = run.gi,
                     ![r].geo_results = run.geo_results,
                     ![r].requested = run.requested,
                     ![r].inflight = run.inflight,
                     ![r].pc = IF run.inflight THEN "geo" ELSE "done"]

\* What enrich_sources returns: the join of the two batches' results.
enriched(r) == join(req[r].ips, req[r].host, req[r].geo_results)

gather_no_waiter(q) == \A i \in 1..Len(q.task) : q.task[i] # "waiting"

gather_first_done(q) == \E i \in 1..Len(q.task) : q.task[i] = "done"

\* `await asyncio.gather(...)` returns once every task is done.
gather_done(q) == \A i \in 1..Len(q.task) : q.task[i] = "done"

\* batch_reverse_lookup returns; only then does enrich_sources call
\* batch_lookup.
DnsGather(r) ==
    LET q == req[r] IN
    /\ q.pc = "dns"
    /\ gather_done(q)
    /\ EnrichRun(r, [svc |-> geoObjs[q.geo], gi |-> 0, geo_results |-> << >>,
                     requested |-> {}, inflight |-> FALSE])
    /\ UNCHANGED <<call, fetch, env, now, sources, dnsInstance, dnsObjs, geoInstance,
                   dnsFcAtReset, geoFcAtReset>>

\* The HTTP request of the lookup in progress ends with `kind`; lookup
\* returns and the loop goes on.
GeoResponse(r, kind) ==
    LET q == req[r]
        e == lookup_end(geoObjs[q.geo], q.ips[q.gi + 1], kind, now)
    IN  /\ q.pc = "geo"
        /\ q.inflight
        /\ IF e.raised
           THEN /\ geoObjs' = [geoObjs EXCEPT ![q.geo] = e.svc]
                /\ req' = [req EXCEPT ![r].inflight = FALSE, ![r].pc = "raised"]
           ELSE EnrichRun(r, [svc |-> e.svc, gi |-> q.gi + 1,
                              geo_results |-> Append(q.geo_results, e.result),
                              requested |-> q.requested, inflight |-> FALSE])
        /\ UNCHANGED <<call, fetch, env, now, sources, dnsInstance, dnsObjs, geoInstance,
                       dnsFcAtReset, geoFcAtReset>>

----------------------------------------------------------------------------
(* main.py: the two routes that fetch and enrich *)

\* dashboard: `if chrony_data.sources:`
dashboard_enriches(chrony_data) == chrony_data.sources # << >>

api_sources_available_always(chrony_data) == FALSE

\* api_sources: `if chrony_data.error:`, true of a message that is not empty.
api_sources_unavailable(chrony_data) ==
    chrony_data.error # None /\ TheVal(chrony_data.error) # ""

\* The handler of request r has fetch_chrony_data's return value in hand.
Fetched(r) ==
    /\ req[r].pc = "idle"
    /\ fetch.calls = r
    /\ fetch.pc = "returned"

\* GET /: from the return of fetch_chrony_data to the first suspension of
\* enrich_sources, or to the response when there is nothing to enrich.
Dashboard(r) ==
    /\ Fetched(r)
    /\ LET chrony_data == TheVal(fetch.result) IN
       IF dashboard_enriches(chrony_data)
       THEN enrich_sources_begin(r, chrony_data.sources,
                                 [Idle EXCEPT !.route = "dashboard"])
       ELSE /\ req' = [req EXCEPT ![r].pc = "responded",
                                  ![r].route = "dashboard",
                                  ![r].status = 200]
            /\ UNCHANGED <<dnsInstance, dnsObjs, geoInstance, geoObjs>>
    /\ UNCHANGED <<call, fetch, env, now, sources, dnsFcAtReset, geoFcAtReset>>

\* GET /api/sources: from the return of fetch_chrony_data to the 503
\* response, or to the first suspension of enrich_sources.
ApiSources(r) ==
    /\ Fetched(r)
    /\ LET chrony_data == TheVal(fetch.result) IN
       IF api_sources_unavailable(chrony_data)
       THEN /\ req' = [req EXCEPT ![r].pc = "responded",
                                  ![r].route = "api_sources",
                                  ![r].status = 503,
                                  ![r].message = chrony_data.error]
            /\ UNCHANGED <<dnsInstance, dnsObjs, geoInstance, geoObjs>>
       ELSE enrich_sources_begin(r, chrony_data.sources,
                                 [Idle EXCEPT !.route = "api_sources"])
    /\ UNCHANGED <<call, fetch, env, now, sources, dnsFcAtReset, geoFcAtReset>>

\* Either handler when fetch_chrony_data raised: the exception leaves the
\* handler and the framework answers 500.
HandlerRaises(r) ==
    /\ req[r].pc = "idle"
    /\ fetch.calls = r
    /\ fetch.pc = "raised"
    /\ req' = [req EXCEPT ![r].pc = "responded", ![r].status = 500]
    /\ UNCHANGED <<call, fetch, env, now, sources, dnsInstance, dnsObjs,
                   geoInstance, geoObjs, dnsFcAtReset, geoFcAtReset>>

\* A handler starts: fetch_chrony_data blocks the event loop, so the handler
\* before it has reached its response or its first suspension.
HandlerCall ==
    /\ fetch.calls < NumRequests
    /\ IF fetch.calls = 0 THEN TRUE ELSE req[fetch.calls].pc # "idle"
    /\ FetchCall

\* What the daemon reports while the routes run: its sources, or none yet.
DaemonSources == fetch'.sources \in {<< >>, sources}

RouteStep ==
    \/ HandlerCall
    \/ FetchConnect
    \/ \E e \in ClientErrors : FetchConnectFails(e)
    \/ FetchGet /\ DaemonSources
    \/ \E e \in ClientErrors : FetchGetFails(e)
    \/ FetchExit
    \/ \E r \in Requests : Dashboard(r)
    \/ \E r \in Requests : ApiSources(r)
    \/ \E r \in Requests : HandlerRaises(r)
    \/ \E r \in Requests : \E i \in 1..MaxSources : DnsAcquire(r, i)
    \/ \E r \in Requests : \E i \in 1..MaxSources :
          \E kind \in ResolverOutcomes : DnsComplete(r, i, kind)
    \/ \E r \in Requests : DnsGather(r)
    \/ \E r \in Requests : \E kind \in HttpOutcomes : GeoResponse(r, kind)

\* One dashboard request's steps.
RequestStep ==
    \/ \E r \in Requests : EnrichStart(r)
    \/ \E r \in Requests : \E i \in 1..MaxSources : DnsAcquire(r, i)
    \/ \E r \in Requests : \E i \in 1..MaxSources :
          \E kind \in ResolverOutcomes : DnsComplete(r, i, kind)
    \/ \E r \in Requests : DnsGather(r)
    \/ \E r \in Requests : \E kind \in HttpOutcomes : GeoResponse(r, kind)

\* The singletons' lifecycle and the environment.
LifecycleStep ==
    \/ \E e \in Environments : SetEnv(e)
    \/ \E args \in ArgChoices : DnsGetInstance(args)
    \/ DnsResetInstance
    \/ GeoGetInstance
    \/ GeoResetInstance

\* Concurrent dashboard requests on the singletons, under a fixed environment.
Next ==
    \/ Tick
    \/ RequestStep

Spec == Init /\ [][Next]_vars

\* Requests over one source each, with resets, direct get_instance calls and
\* changes of the environment in between.
InitLifecycle ==
    /\ Init
    /\ Len(sources) = 1

NextLifecycle ==
    \/ RequestStep
    \/ LifecycleStep

SpecLifecycle == InitLifecycle /\ [][NextLifecycle]_vars

\* fetch_chrony_data calls against a daemon client that answers or fails at
\* every step; the enrichment services are not used.
InitFetch ==
    /\ Init
    /\ env = [dns_timeout |-> None, dns_cache_ttl |-> None,
              dns_cache_maxsize |-> None, dns_max_concurrent |-> None,
              geoip_cache_ttl |-> None, geoip_cache_maxsize |-> None]
    /\ sources = <<"8.8.8.8">>

NextFetch == FetchStep

SpecFetch == InitFetch /\ [][NextFetch]_vars

\* Requests over two sources each on a service with a single slot, so that
\* lookups are suspended at the cap.
InitLive ==
    /\ Init
    /\ env.dns_max_concurrent = Some(1)
    /\ sources \in {<<"8.8.8.8", "1.1.1.1">>, <<"8.8.8.8", "8.8.8.8">>,
                    <<"8.8.8.8", "bogus">>}

\* The DNS batches of the requests; the GeoIP requests that follow them stay
\* unanswered.
NextLive ==
    \/ \E r \in Requests : EnrichStart(r)
    \/ \E r \in Requests : \E i \in 1..MaxSources : DnsAcquire(r, i)
    \/ \E r \in Requests : \E i \in 1..MaxSources :
          \E kind \in ResolverOutcomes : DnsComplete(r, i, kind)
    \/ \E r \in Requests : DnsGather(r)

\* The event loop runs a task that is ready, and a resolver call that is
\* awaited ends (wait_for bounds it by the timeout): a step that stays
\* possible is eventually taken.
Fairness == WF_vars(NextLive)

SpecLive == InitLive /\ [][NextLive]_vars /\ Fairness

\* Requests to the two routes, each fetching from the daemon and then
\* enriching what it got, on a DNS service with a single slot.
InitRoutes ==
    /\ Init
    /\ env.dns_max_concurrent = Some(1)
    /\ sources = <<"8.8.8.8">>

NextRoutes == RouteStep

SpecRoutes == InitRoutes /\ [][NextRoutes]_vars

\* Calls of the formatting and rendering functions, one after another; they
\* read nothing of the services, which stay as in the fetch specification.
InitPure == InitFetch

NextPure == PureStep

SpecPure == InitPure /\ [][NextPure]_vars

----------------------------------------------------------------------------
(* The claims *)

Started == {r \in Requests : req[r].pc # "idle"}

\* The tasks of request r whose resolver call is in flight.
InFlight(r) == {i \in 1..Len(req[r].task) : req[r].task[i] = "resolving"}

\* An unexpired entry for ip in cache c at time t, stated on the entries.
Live(c, ip, t) == {k \in 1..Len(c) : c[k].key = ip /\ t < c[k].expires}

\* C1: during a batch_reverse_lookup call the number of its resolver calls in
\* flight never exceeds the max_concurrent of the service it runs on.
C1_InFlightWithinCap ==
    \A r \in Started :
        Cardinality(InFlight(r)) <= dnsObjs[req[r].dns].max_concurrent

\* C1: a batch larger than the cap has as many calls in flight as the cap
\* allows, and a task waiting for a slot.
C1_Witness ==
    \E r \in Started :
        /\ Len(req[r].ips) > dnsObjs[req[r].dns].max_concurrent
        /\ Cardinality(InFlight(r)) = dnsObjs[req[r].dns].max_concurrent
        /\ \E i \in 1..Len(req[r].task) : req[r].task[i] = "waiting"

\* The cache that the service of request r holds before the step; a service
\* constructed by the step starts with an empty cache.
DnsCacheBefore(r) ==
    IF req'[r].dns <= Len(dnsObjs) THEN dnsObjs[req'[r].dns].cache ELSE << >>

\* Task i of request r runs cached_reverse_lookup up to its await in this step.
Entered(r, i) ==
    /\ i \in 1..Len(req'[r].task)
    /\ req[r].pc = "idle" \/ req[r].task[i] = "waiting"
    /\ req'[r].task[i] \in {"resolving", "done"}

\* C2: cached_reverse_lookup calls the resolver exactly when the cache holds
\* no unexpired entry for the address; with one it returns the entry's value
\* (a hostname or a cached None) at once; and the outcome of a fresh lookup is
\* stored under the TTL.
C2_ResolverIffNoLiveEntry ==
    [][\A r \in Requests :
          /\ \A i \in 1..MaxSources :
                Entered(r, i) =>
                   LET c == DnsCacheBefore(r)
                       live == Live(c, req'[r].ips[i], now)
                   IN  /\ (i \in req'[r].resolved) <=> (live = {})
                       /\ live # {} =>
                             /\ req'[r].task[i] = "done"
                             /\ \E k \in live : req'[r].host[i] = c[k].val
                       /\ live = {} => req'[r].task[i] = "resolving"
          /\ \A i \in InFlight(r) :
                req'[r].task[i] = "done" =>
                   LET svc == dnsObjs'[req[r].dns] IN
                   \E k \in 1..Len(svc.cache) :
                       /\ svc.cache[k].key = req[r].ips[i]
                       /\ svc.cache[k].val = req'[r].host[i]
                       /\ svc.cache[k].expires = now + svc.cache_ttl
      ]_vars

\* C2: one request was answered from a cached None, and another resolves an
\* address afresh while its expired entry is still in the cache.
C2_Witness ==
    /\ \E r \in Started : \E i \in 1..Len(req[r].task) :
          /\ req[r].task[i] = "done"
          /\ i \notin req[r].resolved
          /\ req[r].host[i] = None
    /\ \E r \in Started : \E i \in InFlight(r) :
          \E k \in 1..Len(dnsObjs[req[r].dns].cache) :
              /\ dnsObjs[req[r].dns].cache[k].key = req[r].ips[i]
              /\ dnsObjs[req[r].dns].cache[k].expires <= now

\* C3: within one enrich_sources call the resolver is invoked at most once
\* per address and the GeoIP API is requested at most once per address.
C3_OncePerAddress ==
    \A r \in Started : \A a \in Addresses :
        /\ Cardinality({i \in req[r].resolved : req[r].ips[i] = a}) <= 1
        /\ Cardinality({i \in req[r].requested : req[r].ips[i] = a}) <= 1

\* The GeoIP batch of request r has started.
GeoBatchStarted(r) ==
    \/ req[r].pc \in {"geo", "done"}
    \/ req[r].inflight
    \/ req[r].requested # {}
    \/ req[r].geo_results # << >>

\* C4 as claimed: the GeoIP batch starts without waiting for the DNS batch, so
\* it has started whenever a DNS lookup of the call is in flight.
C4_BatchesConcurrent ==
    \A r \in Started : InFlight(r) # {} => GeoBatchStarted(r)

\* C4 as amended: the GeoIP batch starts only after the DNS batch has
\* returned, so no DNS task of a call is unfinished once its GeoIP batch has
\* started.
C4_GeoAfterDns ==
    \A r \in Started :
        GeoBatchStarted(r) =>
            \A i \in 1..Len(req[r].task) : req[r].task[i] = "done"

\* C4: a GeoIP request is in flight in a call that resolved an address.
C4_Witness ==
    \E r \in Started : req[r].inflight /\ req[r].resolved # {}

\* C5: reverse_lookup never raises; when the resolver call ends in a timeout,
\* a DNSError or any other exception it returns None and the failure counter
\* grows by exactly one; on an answer it returns the name and the counter
\* stays.
C5_ReverseLookupAbsorbs ==
    [][\A r \in Requests : \A i \in 1..MaxSources : \A kind \in ResolverOutcomes :
          DnsComplete(r, i, kind) =>
             LET before == dnsObjs[req[r].dns].failure_count
                 after == dnsObjs'[req[r].dns].failure_count
             IN  /\ req'[r].pc # "raised"
                 /\ kind = "answer" =>
                       /\ req'[r].host[i] = Some(PTR(req[r].ips[i]))
                       /\ after = before
                 /\ kind # "answer" =>
                       /\ req'[r].host[i] = None
                       /\ after = before + 1
      ]_vars

\* C5: a lookup failed and a lookup succeeded on the same service.
C5_Witness ==
    \E r \in Started : \E i, j \in req[r].resolved :
        /\ req[r].task[i] = "done" /\ req[r].host[i] = None
        /\ req[r].task[j] = "done" /\ req[r].host[j] # None
        /\ dnsObjs[req[r].dns].failure_count = 1

\* The timeout, cache TTL, cache size and concurrency limit of a DNS service.
DnsParams(o) == <<o.timeout, o.cache_ttl, o.cache_maxsize, o.max_concurrent>>

\* C6 as claimed: the failure count observable through the current instance
\* of either service never decreases, across reset_instance and get_instance
\* too (after a reset: not below what was observable before it).
C6_CountersProcessWide ==
    [][/\ dnsInstance' # 0 =>
             dnsObjs'[dnsInstance'].failure_count >=
                 IF dnsInstance # 0 THEN dnsObjs[dnsInstance].failure_count
                                    ELSE dnsFcAtReset
       /\ geoInstance' # 0 =>
             geoObjs'[geoInstance'].failure_count >=
                 IF geoInstance # 0 THEN geoObjs[geoInstance].failure_count
                                    ELSE geoFcAtReset
      ]_vars

\* C6 as amended: the failure count of each service object never decreases,
\* and an object constructed by get_instance starts at 0 whatever the count
\* of the object it replaces.
C6_CountersPerInstance ==
    [][/\ \A i \in 1..Len(dnsObjs') :
             IF i <= Len(dnsObjs)
             THEN dnsObjs'[i].failure_count >= dnsObjs[i].failure_count
             ELSE dnsObjs'[i].failure_count = 0
       /\ \A i \in 1..Len(geoObjs') :
             IF i <= Len(geoObjs)
             THEN geoObjs'[i].failure_count >= geoObjs[i].failure_count
             ELSE geoObjs'[i].failure_count = 0
      ]_vars

\* C6: after a reset the current instances count fewer failures than were
\* observable before the reset.
C6_Witness ==
    /\ dnsInstance # 0
    /\ dnsObjs[dnsInstance].failure_count < dnsFcAtReset
    /\ geoInstance # 0
    /\ geoObjs[geoInstance].failure_count < geoFcAtReset

\* get_instance keeps the instance it finds: no step but reset_instance
\* changes _instance once it is set, none constructs a second object while it
\* is set, and no object's parameters change.
DnsInstanceShared ==
    /\ dnsInstance # 0 =>
          /\ dnsInstance' \in {0, dnsInstance}
          /\ Len(dnsObjs') = Len(dnsObjs)
    /\ \A i \in 1..Len(dnsObjs) : DnsParams(dnsObjs'[i]) = DnsParams(dnsObjs[i])
    /\ \A r \in Requests :
          req[r].pc = "idle" /\ req'[r].pc # "idle" =>
              /\ req'[r].dns = dnsInstance'
              /\ dnsInstance # 0 => req'[r].dns = dnsInstance

\* C7 as claimed: one shared instance between two resets, and every instance
\* that get_instance constructs after a reset has the four parameters of the
\* configuration current at that moment.
C7_ParametersFromConfiguration ==
    [][/\ DnsInstanceShared
       /\ Len(dnsObjs') > Len(dnsObjs) /\ Len(dnsObjs) >= 1 =>
             DnsParams(dnsObjs'[Len(dnsObjs')]) =
                 <<get_settings(env).dns_timeout, get_settings(env).dns_cache_ttl,
                   get_settings(env).dns_cache_maxsize,
                   get_settings(env).dns_max_concurrent>>
      ]_vars

\* C7 as amended: one shared instance between two resets, and every instance
\* that get_instance constructs has, for each of the four parameters, the
\* argument of that call when one is given and else the value of the
\* configuration current at that moment.
C7_ParametersFromArgumentsOrConfiguration ==
    [][/\ DnsInstanceShared
       /\ \A args \in ArgChoices :
             DnsGetInstance(args) /\ dnsInstance = 0 =>
                 /\ dnsInstance' = Len(dnsObjs) + 1
                 /\ DnsParams(dnsObjs'[dnsInstance']) =
                       <<OrDefault(args.timeout, get_settings(env).dns_timeout),
                         OrDefault(args.cache_ttl, get_settings(env).dns_cache_ttl),
                         OrDefault(args.cache_maxsize,
                                   get_settings(env).dns_cache_maxsize),
                         OrDefault(args.max_concurrent,
                                   get_settings(env).dns_max_concurrent)>>
       /\ \A r \in Requests :
             EnrichStart(r) /\ dnsInstance = 0 =>
                 /\ dnsInstance' = Len(dnsObjs) + 1
                 /\ DnsParams(dnsObjs'[dnsInstance']) =
                       <<get_settings(env).dns_timeout,
                         get_settings(env).dns_cache_ttl,
                         get_settings(env).dns_cache_maxsize,
                         get_settings(env).dns_max_concurrent>>
      ]_vars

\* C7: the instance in use was constructed after a reset, from a
\* configuration other than the first instance's and other than the defaults.
C7_Witness ==
    /\ Len(dnsObjs) = 2
    /\ dnsInstance = 2
    /\ \E r \in Started : req[r].dns = 2
    /\ DnsParams(dnsObjs[2]) # DnsParams(dnsObjs[1])
    /\ DnsParams(dnsObjs[2]) =
          <<get_settings(env).dns_timeout, get_settings(env).dns_cache_ttl,
            get_settings(env).dns_cache_maxsize,
            get_settings(env).dns_max_concurrent>>
    /\ dnsObjs[2].cache_ttl # DefaultDnsCacheTtl

\* C8 as claimed: the GeoIP instance that get_instance constructs takes its
\* cache TTL and cache size from the configuration current at that moment,
\* with the defaults for what is not configured.
C8_GeoParametersFromConfiguration ==
    [][Len(geoObjs') > Len(geoObjs) =>
          LET o == geoObjs'[Len(geoObjs')] IN
          /\ o.cache_ttl = OrDefault(env.geoip_cache_ttl, GeoDefaultCacheTtl)
          /\ o.cache_maxsize =
                OrDefault(env.geoip_cache_maxsize, GeoDefaultCacheMaxsize)
      ]_vars

\* C8 as amended: every GeoIP instance that get_instance constructs, the
\* first and those after a reset, has the cache TTL 3600 and the cache size
\* 1024 of the constructor's defaults, whatever the configuration holds.
C8_GeoParametersAreDefaults ==
    \A i \in 1..Len(geoObjs) :
        /\ geoObjs[i].cache_ttl = GeoDefaultCacheTtl
        /\ geoObjs[i].cache_maxsize = GeoDefaultCacheMaxsize

\* C8: a GeoIP instance constructed after a reset is in use while the
\* environment sets a GeoIP cache TTL and size.
C8_Witness ==
    /\ Len(geoObjs) = 2
    /\ geoInstance = 2
    /\ \E r \in Started : req[r].geo = 2
    /\ env.geoip_cache_ttl # None
    /\ env.geoip_cache_maxsize # None

\* An address that is private, loopback, link-local, reserved or multicast,
\* or that does not parse.
NonPublic(ip) ==
    \/ ip_address(ip) = None
    \/ \E a \in ip_address(ip) :
          a.is_private \/ a.is_loopback \/ a.is_link_local \/ a.is_reserved
              \/ a.is_multicast

\* The lookups that batch_lookup of request r finishes in this step.
Finished(r) == (req[r].gi + 1)..req'[r].gi

\* Cache c holds, unexpired at time t, result res for ip.
Holds(c, ip, res, t) ==
    \E k \in 1..Len(c) : c[k].key = ip /\ c[k].val = res /\ t < c[k].expires

\* C9: lookup of a non-public address sends no HTTP request, returns
\* is_private = true with no country code and name, and leaves that result in
\* the cache.
C9_PrivateNeverRequested ==
    [][\A r \in Requests : \A k \in Finished(r) :
          NonPublic(req'[r].ips[k]) =>
             LET res == [ip_address |-> req'[r].ips[k], is_private |-> TRUE,
                         country_code |-> None, country_name |-> None]
             IN  /\ k \notin req'[r].requested
                 /\ req'[r].geo_results[k] = res
                 /\ Holds(geoObjs'[req'[r].geo].cache, req'[r].ips[k], res, now)
      ]_vars

\* C9: a request returned with the private result for an unparsable address
\* and for a multicast address.
C9_Witness ==
    \E r \in Started :
        /\ req[r].pc = "done"
        /\ \E k, m \in 1..Len(req[r].ips) :
              /\ ip_address(req[r].ips[k]) = None
              /\ req[r].geo_results[k].is_private
              /\ \E a \in ip_address(req[r].ips[m]) : a.is_multicast
              /\ req[r].geo_results[m].is_private

\* C10: a lookup of a public address that the cache does not hold sends one
\* HTTP request; when the request fails in any way, lookup does not raise,
\* the failure counter grows by exactly one, and the result with
\* is_private = false and no country is cached and returned.
C10_FailedLookupAbsorbed ==
    [][\A r \in Requests :
          /\ \A kind \in HttpOutcomes \ {"success"} :
                GeoResponse(r, kind) =>
                   LET k == req[r].gi + 1
                       res == [ip_address |-> req[r].ips[k], is_private |-> FALSE,
                               country_code |-> None, country_name |-> None]
                   IN  /\ req'[r].pc # "raised"
                       /\ geoObjs'[req[r].geo].failure_count =
                             geoObjs[req[r].geo].failure_count + 1
                       /\ req'[r].geo_results[k] = res
                       /\ Holds(geoObjs'[req[r].geo].cache, req[r].ips[k], res, now)
                       /\ k \in req[r].requested
          /\ \A k \in Finished(r) :
                k \notin req'[r].requested =>
                    \/ NonPublic(req'[r].ips[k])
                    \/ Holds(geoObjs'[req'[r].geo].cache, req'[r].ips[k],
                             req'[r].geo_results[k], now)
          /\ req'[r].inflight /\ (~req[r].inflight \/ req'[r].gi # req[r].gi) =>
                /\ req'[r].gi + 1 \in req'[r].requested
                /\ req'[r].gi + 1 \notin req[r].requested
                /\ ~NonPublic(req'[r].ips[req'[r].gi + 1])
                /\ Live(geoObjs'[req'[r].geo].cache,
                        req'[r].ips[req'[r].gi + 1], now) = {}
      ]_vars

\* C10: a request got the no-country result for a public address from a
\* failed HTTP request, counted once.
C10_Witness ==
    \E r \in Started : \E k \in req[r].requested :
        /\ k <= Len(req[r].geo_results)
        /\ ~NonPublic(req[r].ips[k])
        /\ ~req[r].geo_results[k].is_private
        /\ req[r].geo_results[k].country_code = None
        /\ geoObjs[req[r].geo].failure_count = 1

\* The lookups of request r's GeoIP batch whose HTTP request was sent and
\* which have not returned yet.
GeoInFlight(r) == {k \in req[r].requested : k > Len(req[r].geo_results)}

\* C11: within one batch_lookup call at most one HTTP request is in flight,
\* and it is the request of the lookup that follows the lookups that have
\* returned: no lookup starts before the one ahead of it has returned.
C11_GeoBatchSequential ==
    \A r \in Started :
        /\ Cardinality(GeoInFlight(r)) <= 1
        /\ Len(req[r].geo_results) = req[r].gi
        /\ \A k \in req[r].requested : k <= req[r].gi + 1
        /\ req[r].inflight <=> GeoInFlight(r) = {req[r].gi + 1}
        /\ ~req[r].inflight => GeoInFlight(r) = {}

\* C11: the second HTTP request of a batch is in flight after the first one
\* of that batch has returned.
C11_Witness ==
    \E r \in Started :
        /\ req[r].inflight
        /\ req[r].requested = {1, 2}
        /\ Len(req[r].geo_results) = 1

\* C12: what enrich_sources returns has one entry per input source, in the
\* input order: entry i is built on source i.
C12_OrderPreserved ==
    \A r \in Started :
        req[r].pc = "done" =>
            /\ Len(enriched(r)) = Len(sources)
            /\ \A i \in 1..Len(sources) : enriched(r)[i].source = sources[i]

\* C12: a call returned for two sources of different addresses, the first
\* without and the second with a hostname.
C12_Witness ==
    \E r \in Started :
        /\ req[r].pc = "done"
        /\ Len(sources) = 2
        /\ sources[1] # sources[2]
        /\ enriched(r)[1].hostname = None
        /\ enriched(r)[2].hostname # None

\* The task indices of request r that carry address ip.
Occurrences(r, ip) == {j \in 1..Len(req[r].ips) : req[r].ips[j] = ip}

\* A country code of exactly two letters.
TwoLetter(code) ==
    /\ code # None
    /\ Len(Chars(TheVal(code))) = 2
    /\ \A i \in 1..2 : Chars(TheVal(code))[i] \in (65..90) \cup (97..122)

\* The country codes on which the flag rule is checked.
CountryCodes == {None, Some(""), Some("U"), Some("US"), Some("us"), Some("USA")}

C14_FailuresAbsorbed ==
    [][\A r \in Requests :
          /\ req'[r].pc # "raised"
          /\ \A i \in 1..Len(req[r].ips) :
                (/\ req[r].task[i] = "resolving"
                 /\ req'[r].task[i] = "done"
                 /\ dnsObjs'[req[r].dns].failure_count >
                       dnsObjs[req[r].dns].failure_count)
                    => req'[r].host[i] = None
          /\ (/\ req[r].inflight
              /\ req'[r].gi > req[r].gi
              /\ geoObjs'[req[r].geo].failure_count >
                    geoObjs[req[r].geo].failure_count)
                 => /\ req'[r].geo_results[req[r].gi + 1].country_code = None
                    /\ req'[r].geo_results[req[r].gi + 1].country_name = None
          /\ (req[r].pc # "done" /\ req'[r].pc = "done") =>
                LET q == req'[r]
                    out == join(q.ips, q.host, q.geo_results)
                IN  /\ Len(out) = Len(q.ips)
                    /\ \A i \in 1..Len(q.ips) :
                          /\ (\A j \in 1..Len(q.ips) :
                                 q.ips[j] = q.ips[i] => q.host[j] = None)
                                => out[i].hostname = None
                          /\ (\A j \in 1..Len(q.ips) :
                                 q.ips[j] = q.ips[i] =>
                                     q.geo_results[j].country_code = None)
                                => /\ out[i].country_code = None
                                   /\ out[i].country_flag = << >>
      ]_vars

\* C14: a call returned although every DNS lookup and the HTTP request of
\* its batch failed: two entries, none with a hostname or a country.
C14_Witness ==
    \E r \in Started :
        /\ req[r].pc = "done"
        /\ Len(req[r].ips) = 2
        /\ req[r].resolved = {1, 2}
        /\ req[r].requested # {}
        /\ dnsObjs[req[r].dns].failure_count >= 2
        /\ geoObjs[req[r].geo].failure_count >= 1
        /\ \A i \in 1..2 : /\ enriched(r)[i].hostname = None
                           /\ enriched(r)[i].country_code = None

\* C15: batch_reverse_lookup returns only when every lookup of the batch is
\* done, and the mapping it returns has exactly the requested addresses as
\* keys, each mapped to the hostname of a lookup of that address or to None.
C15_BatchComplete ==
    [][\A r \in Requests :
          DnsGather(r) =>
              LET q == req[r]
                  hostnames == AsDict(q.ips, q.host)
              IN  /\ \A i \in 1..Len(q.ips) : q.task[i] = "done"
                  /\ InFlight(r) = {}
                  /\ DOMAIN hostnames = {q.ips[i] : i \in 1..Len(q.ips)}
                  /\ \A ip \in DOMAIN hostnames :
                        /\ hostnames[ip] \in {None, Some(PTR(ip))}
                        /\ \E j \in Occurrences(r, ip) : hostnames[ip] = q.host[j]
      ]_vars

\* C15: a batch over two different addresses has returned, one address with
\* a hostname and one without, after its tasks had to take turns.
C15_Witness ==
    \E r \in Started :
        /\ req[r].pc \in {"geo", "done"}
        /\ Len(req[r].ips) = 2
        /\ req[r].ips[1] # req[r].ips[2]
        /\ req[r].resolved = {1, 2}
        /\ dnsObjs[req[r].dns].max_concurrent = 1
        /\ req[r].host[1] # None
        /\ req[r].host[2] = None

\* The fetch_chrony_data call has ended, by a return or by an exception.
FetchEnded == fetch.pc \in {"returned", "raised"}

\* The shape fetch_chrony_data is to return for a failure with message msg.
EmptyShape(msg) ==
    [tracking |-> None, sources |-> << >>, source_stats |-> << >>,
     rtc |-> None, error |-> Some(msg)]

\* C16: a call in which opening the connection or any fetch raised a
\* connection or library failure returns, without raising, the ChronyData
\* with nothing in it but the connectivity message, is_connected false,
\* whatever was fetched before the failure.
C16_ConnectionFailureShape ==
    (FetchEnded /\ fetch.exc \in {Some("ChronyConnectionError"),
                                  Some("ChronyLibraryError")}) =>
        /\ fetch.pc = "returned"
        /\ fetch.result =
              Some(EmptyShape("Unable to connect to chronyd. Is the service running?"))
        /\ ~is_connected(TheVal(fetch.result))

\* C16: a call returned the connectivity error after a library failure of
\* the RTC fetch, with tracking, sources and source stats already fetched.
C16_Witness ==
    /\ fetch.pc = "returned"
    /\ fetch.exc = Some("ChronyLibraryError")
    /\ fetch.at = 4
    /\ fetch.tracking # None
    /\ fetch.sources # << >>
    /\ fetch.source_stats # << >>

\* C17: a call in which the daemon client raised a permission failure
\* returns, without raising, the same empty shape with the permission
\* message, never the connectivity message, is_connected false.
C17_PermissionFailureShape ==
    (FetchEnded /\ fetch.exc = Some("ChronyPermissionError")) =>
        /\ fetch.pc = "returned"
        /\ fetch.result =
              Some(EmptyShape("Permission denied. Add your user to the chrony group."))
        /\ TheVal(fetch.result).error #
              Some("Unable to connect to chronyd. Is the service running?")
        /\ ~is_connected(TheVal(fetch.result))

\* C17: a call returned the permission error raised while opening the
\* connection.
C17_Witness ==
    /\ fetch.pc = "returned"
    /\ fetch.exc = Some("ChronyPermissionError")
    /\ fetch.opened = 0
    /\ TheVal(fetch.result).error # None

\* The tracking, sources and source-stats fetches of the call succeeded and
\* the RTC fetch signalled that there is no RTC data: by returning None or by
\* raising the data-unavailable error.
RtcUnavailable ==
    \/ fetch.exc = None /\ fetch.rtc = None
    \/ fetch.exc = Some("ChronyDataError") /\ fetch.at = 4

\* C18: a call whose RTC fetch signalled 'unavailable' after the three other
\* fetches succeeded returns what they fetched, with rtc absent, error absent
\* and is_connected true.
C18_RtcUnavailableIsNoError ==
    (FetchEnded /\ RtcUnavailable) =>
        /\ fetch.pc = "returned"
        /\ fetch.result =
              Some([tracking |-> fetch.tracking, sources |-> fetch.sources,
                    source_stats |-> fetch.source_stats, rtc |-> None,
                    error |-> None])
        /\ is_connected(TheVal(fetch.result))

\* C19: a call opens at most one connection, its fetches run while that
\* connection is open, and once the call has ended, by a return or by an
\* exception, the connection it opened is released.
C19_ConnectionScoped ==
    /\ fetch.opened <= 1
    /\ fetch.pc = "fetch" => fetch.conn = "open" /\ fetch.opened = 1
    /\ fetch.conn = "open" => fetch.pc \in {"fetch", "exit"}
    /\ FetchEnded => fetch.conn = IF fetch.opened = 1 THEN "closed" ELSE "none"

\* C19: a call ended with its connection released after a fetch in the
\* middle of the block failed.
C19_Witness ==
    /\ FetchEnded
    /\ fetch.conn = "closed"
    /\ fetch.exc # None
    /\ fetch.at \in 2..3

\* The ChronyData values the predicates are checked on: every combination of
\* a present or absent tracking, sources, rtc and error.
ChronyDataValues ==
    {[tracking |-> t, sources |-> s, source_stats |-> << >>, rtc |-> r,
      error |-> e] :
        t \in {None} \cup {Some(v) : v \in TrackingValues},
        s \in {<< >>, <<"8.8.8.8">>},
        r \in RtcValues,
        e \in {None, Some("Some error")}}

\* C20: for every ChronyData, is_connected is 'error absent and tracking
\* present' and is_synchronized is 'tracking present and synchronized'; and
\* what fetch_chrony_data returns with an error has no tracking, no sources,
\* no source stats and no rtc.
C20_PredicatesAndErrorShape ==
    /\ \A d \in ChronyDataValues \cup fetch.result :
          /\ is_connected(d) <=> (d.error = {} /\ d.tracking # {})
          /\ is_synchronized(d) <=>
                (d.tracking # {} /\ \E v \in d.tracking : v.synchronized)
    /\ \A d \in fetch.result :
          d.error # {} =>
              /\ d.tracking = {}
              /\ d.sources = << >>
              /\ d.source_stats = << >>
              /\ d.rtc = {}

\* C20: the second call returned an error after tracking and a non-empty
\* source list had been fetched.
C20_Witness ==
    /\ fetch.calls = 2
    /\ fetch.pc = "returned"
    /\ TheVal(fetch.result).error # None
    /\ fetch.tracking = Some([synchronized |-> TRUE])
    /\ Len(fetch.sources) = 2

\* The sections of the rendered main content that are of kind k.
SectionsOf(k) ==
    {i \in 1..Len(call.sections) : call.sections[i].section = k}

\* C21: for every ChronyData the main content shows the error banner, with
\* the message, exactly when an error message is present; it always has
\* exactly one tracking section, which shows the placeholder when tracking is
\* absent; the sources, statistics and RTC sections appear only when
\* is_connected holds; and with enriched sources missing or empty the page is
\* still rendered, a connected one listing the plain sources.
C21_MainContentSections ==
    call.fn = "_main_content" =>
        LET d == TheVal(call.data)
            present == d.error # None /\ TheVal(d.error) # ""
            unenriched == call.enriched_sources \in {None, Some(<< >>)}
        IN  /\ (SectionsOf("error_banner") # {}) <=> present
            /\ \A i \in SectionsOf("error_banner") :
                  call.sections[i].shows = TheVal(d.error)
            /\ Cardinality(SectionsOf("tracking")) = 1
            /\ d.tracking = None =>
                  \A i \in SectionsOf("tracking") :
                      call.sections[i].shows = "Unknown"
            /\ \A k \in {"sources", "stats", "rtc"} :
                  SectionsOf(k) # {} => is_connected(d)
            /\ unenriched /\ is_connected(d) /\ d.sources # << >> =>
                  /\ SectionsOf("sources") # {}
                  /\ \A i \in SectionsOf("sources") :
                        call.sections[i].shows = d.sources

\* C21: the page of an unreachable daemon, rendered without enriched sources.
C21_Witness ==
    /\ call.fn = "_main_content"
    /\ TheVal(call.data).error = Some(ConnectMessage)
    /\ TheVal(call.data).tracking = None
    /\ call.enriched_sources = None
    /\ Len(call.sections) = 2

\* C22: for every whole stratum v in 0..16 the verdict is error when v is 16
\* or above 8, warning when v is above 3 and at most 8, healthy when v is at
\* most 3.
C22_StratumVerdict ==
    call.fn = "get_health_status" /\ call.metric = "stratum"
        /\ call.value \in 0..16 =>
        /\ (call.value = 16 \/ call.value > 8) => call.status = "error"
        /\ (3 < call.value /\ call.value <= 8) => call.status = "warning"
        /\ call.value <= 3 => call.status = "healthy"

\* C22: stratum 8, the last one that is a warning.
C22_Witness ==
    /\ call.fn = "get_health_status"
    /\ call.metric = "stratum"
    /\ call.value = 8
    /\ call.status = "warning"

\* How good a verdict is.
Rank(status) ==
    CASE status = "error" -> 0
      [] status = "warning" -> 1
      [] status = "healthy" -> 2

\* C23: for every register value v in 0..255 the verdict is error below 127,
\* warning from 127 to 254 and healthy only at 255, and no larger register
\* value gets a worse verdict.
C23_ReachabilityVerdict ==
    call.fn = "get_health_status" /\ call.metric = "reachability"
        /\ call.value \in 0..255 =>
        /\ call.value < 127 => call.status = "error"
        /\ (127 <= call.value /\ call.value < 255) => call.status = "warning"
        /\ (call.status = "healthy") <=> (call.value = 255)
        /\ \A w \in call.value..255 :
              Rank(get_health_status("reachability", w)) >= Rank(call.status)

\* C23: 127, the first register value that is only a warning.
C23_Witness ==
    /\ call.fn = "get_health_status"
    /\ call.metric = "reachability"
    /\ call.value = 127
    /\ call.status = "warning"

\* C24: a metric of the threshold table is judged by the absolute value:
\* error from the error threshold on, warning from the warning threshold up
\* to the error threshold, healthy below, so that a value and its negative
\* get the same verdict; a metric that is neither stratum, reachability nor
\* in the table is healthy whatever the value.
C24_ThresholdVerdict ==
    call.fn = "get_health_status" =>
        LET magnitude == IF call.value < 0 THEN 0 - call.value ELSE call.value
        IN  /\ call.metric \in DOMAIN HEALTH_THRESHOLDS =>
                LET warning == HEALTH_THRESHOLDS[call.metric][1]
                    error == HEALTH_THRESHOLDS[call.metric][2]
                IN  /\ magnitude >= error => call.status = "error"
                    /\ (warning <= magnitude /\ magnitude < error) =>
                          call.status = "warning"
                    /\ magnitude < warning => call.status = "healthy"
                    /\ get_health_status(call.metric, 0 - call.value)
                          = call.status
            /\ call.metric \notin
                  {"stratum", "reachability"} \cup DOMAIN HEALTH_THRESHOLDS =>
                      call.status = "healthy"

\* C24: an offset of minus one tenth of a second, at the error threshold.
C24_Witness ==
    /\ call.fn = "get_health_status"
    /\ call.metric = "offset"
    /\ call.value = 0 - 100
    /\ call.status = "error"

\* Bit k of v is set: v is some higher bits, then 2^k, then lower bits.
BitSet(v, k) ==
    \E hi \in 0..255 : \E lo \in 0..(2^k - 1) : v = hi * 2^(k + 1) + 2^k + lo

\* C25: for every v in 0..255 the result is exactly 8 booleans, element i
\* (counted from 0) true exactly when bit 7 - i of v is set: the oldest poll
\* first, the most recent poll (bit 0) last.
C25_ReachabilityBits ==
    call.fn = "format_reachability_visual" /\ call.value \in 0..255 =>
        /\ Len(call.bits) = 8
        /\ \A i \in 0..7 : call.bits[i + 1] \in BOOLEAN
        /\ \A i \in 0..7 : call.bits[i + 1] <=> BitSet(call.value, 7 - i)
        /\ call.bits[8] <=> call.value % 2 = 1

\* C25: the register 0o170, four successful polls followed by three failed
\* ones.
C25_Witness ==
    /\ call.fn = "format_reachability_visual"
    /\ call.value = 120
    /\ call.bits = <<FALSE, TRUE, TRUE, TRUE, TRUE, FALSE, FALSE, FALSE>>

\* The resolver calls in flight on DNS service k, over all requests.
DnsInFlightOn(k) ==
    {c \in Requests \X (1..MaxSources) :
        /\ req[c[1]].pc # "idle"
        /\ req[c[1]].dns = k
        /\ c[2] \in InFlight(c[1])}

\* The resolver calls in flight in the process.
DnsInFlight == UNION {DnsInFlightOn(k) : k \in 1..Len(dnsObjs)}

\* The maximum in force: the current instance's, or the configured one when
\* there is no instance.
ConfiguredMaximum ==
    IF dnsInstance # 0
    THEN dnsObjs[dnsInstance].max_concurrent
    ELSE get_settings(env).dns_max_concurrent

\* C26 as claimed: whatever requests and reset_instance calls interleave, the
\* number of resolver calls in flight in the process never exceeds the
\* configured maximum.
C26_InFlightProcessWide == Cardinality(DnsInFlight) <= ConfiguredMaximum

\* C26: the bound holds per service instance: over every interleaving of
\* requests, get_instance and reset_instance calls, the resolver calls in
\* flight on one DNSService, summed over the requests running on it, never
\* exceed that instance's max_concurrent; as long as reset_instance has built
\* no second instance this is the process-wide number.
C26_InFlightWithinInstanceCap ==
    /\ \A k \in 1..Len(dnsObjs) :
          Cardinality(DnsInFlightOn(k)) <= dnsObjs[k].max_concurrent
    /\ Len(dnsObjs) = 1 =>
          Cardinality(DnsInFlight) <= dnsObjs[1].max_concurrent

\* C26: two requests on one instance with a single slot, one resolving while
\* the other's lookup waits.
C26_Witness ==
    \E r1, r2 \in Requests :
        /\ r1 # r2
        /\ req[r1].pc = "dns" /\ req[r2].pc = "dns"
        /\ req[r1].dns = req[r2].dns
        /\ dnsObjs[req[r1].dns].max_concurrent = 1
        /\ InFlight(r1) # {}
        /\ \E i \in 1..Len(req[r2].task) : req[r2].task[i] = "waiting"

\* C27: with every resolver call ending and a fair scheduler, a lookup that
\* is suspended at the cap eventually gets its slot and every
\* batch_reverse_lookup call eventually returns; and a lookup gives its slot
\* back when its resolver call ends, by a failure or a timeout as by an
\* answer.
C27_SuspendedLookupsProceed ==
    /\ \A r \in Requests : \A i \in 1..MaxSources :
          (req[r].pc = "dns" /\ i <= Len(req[r].task)
              /\ req[r].task[i] = "waiting")
          ~> (i <= Len(req[r].task)
                 /\ req[r].task[i] \in {"resolving", "done"})
    /\ \A r \in Requests : (req[r].pc = "dns") ~> (req[r].pc \notin {"idle", "dns"})
    /\ [][\A r \in Requests : \A i \in 1..Len(req[r].task) :
             req[r].task[i] = "resolving" /\ req'[r].task[i] = "done" =>
                 dnsObjs'[req[r].dns].semaphore
                     = dnsObjs[req[r].dns].semaphore + 1]_vars

\* C27: on a service with one slot the second lookup of a batch, suspended
\* while the first was resolving, holds the slot that the first lookup gave
\* back after it failed.
C27_Witness ==
    \E r \in Requests :
        /\ req[r].pc = "dns"
        /\ dnsObjs[req[r].dns].max_concurrent = 1
        /\ req[r].task = <<"done", "resolving">>
        /\ req[r].resolved = {1, 2}
        /\ req[r].host[1] = None

\* The lookups of request r's GeoIP batch that begin in this step: all that
\* have returned or are awaiting their response afterwards, but the one that
\* was awaiting its response before.
Begun(r) ==
    {k \in 1..Len(req'[r].ips) :
        /\ req[r].pc \in {"dns", "geo"}
        /\ k > (IF req[r].pc = "geo" THEN req[r].gi + 1 ELSE 0)
        /\ k <= req'[r].gi + (IF req'[r].inflight THEN 1 ELSE 0)}

\* C28: a lookup that begins while the cache holds an unexpired entry for its
\* address sends no HTTP request and returns at once what the cache holds for
\* the address, the no-country result of a failed lookup like any other; and
\* the failure counter changes in no step but one in which an HTTP request
\* ended, so a cache hit leaves it alone.
C28_GeoCacheHit ==
    [][/\ \A r \in Requests : \A k \in Begun(r) :
             LET ip == req'[r].ips[k]
                 g == req'[r].geo
             IN  Live(geoObjs[g].cache, ip, now) # {} =>
                    /\ k \notin req'[r].requested
                    /\ k <= req'[r].gi
                    /\ Holds(geoObjs'[g].cache, ip, req'[r].geo_results[k], now)
                    /\ ~(req[r].pc = "geo" /\ req[r].ips[req[r].gi + 1] = ip) =>
                          Holds(geoObjs[g].cache, ip, req'[r].geo_results[k], now)
       /\ \A g \in 1..Len(geoObjs) :
             geoObjs'[g].failure_count # geoObjs[g].failure_count =>
                \E r \in Requests :
                    /\ req[r].pc = "geo" /\ req[r].inflight /\ req[r].geo = g
                    /\ req'[r].gi > req[r].gi
      ]_vars

\* C28: a request was given the no-country result for a public address
\* without having sent an HTTP request for it: the cached result of an
\* earlier failed lookup.
C28_Witness ==
    \E r \in Started : \E k \in 1..Len(req[r].geo_results) :
        /\ k \notin req[r].requested
        /\ ~NonPublic(req[r].ips[k])
        /\ ~req[r].geo_results[k].is_private
        /\ req[r].geo_results[k].country_code = None
        /\ geoObjs[req[r].geo].failure_count = 1

\* The requests whose batch_reverse_lookup on DNS service k has not returned.
DnsBatchesOn(k) == {r \in Requests : req[r].pc = "dns" /\ req[r].dns = k}

\* C29: on every DNS service the free slots and the lookups holding a slot
\* add up to max_concurrent, and once every batch_reverse_lookup on it has
\* returned all max_concurrent slots are free, whatever the outcomes were.  A
\* lookup needs its slot before it reads the cache: one that is suspended
\* found no slot free, and one that went on, to a cache hit as to a resolver
\* call, found one free.
C29_SlotsConserved ==
    /\ [](\A k \in 1..Len(dnsObjs) :
            /\ dnsObjs[k].semaphore + Cardinality(DnsInFlightOn(k))
                  = dnsObjs[k].max_concurrent
            /\ dnsObjs[k].semaphore >= 0
            /\ DnsBatchesOn(k) = {} =>
                  dnsObjs[k].semaphore = dnsObjs[k].max_concurrent)
    /\ [][\A r \in Requests : \A i \in 1..Len(req'[r].task) :
             /\ (req[r].pc = "idle" /\ req'[r].task[i] = "waiting") =>
                   dnsObjs'[req'[r].dns].semaphore = 0
             /\ (req[r].pc = "dns" /\ req[r].task[i] = "waiting"
                    /\ req'[r].task[i] # "waiting") =>
                   dnsObjs[req[r].dns].semaphore > 0
             /\ (req[r].pc = "idle" /\ req'[r].task[i] = "done") =>
                   \A j \in 1..i : req'[r].task[j] # "waiting"
      ]_vars

\* C29: both batches have returned after a failed, an answered and a cached
\* lookup on a service with one slot, and the slot is free.
C29_Witness ==
    /\ \A r \in Requests : req[r].pc \in {"geo", "done"}
    /\ \E r \in Requests :
          /\ dnsObjs[req[r].dns].max_concurrent = 1
          /\ dnsObjs[req[r].dns].semaphore = 1
          /\ dnsObjs[req[r].dns].failure_count >= 1
          /\ \E i, j \in 1..Len(req[r].host) :
                req[r].host[i] = None /\ req[r].host[j] # None
    /\ \E r \in Requests : \E i \in 1..Len(req[r].task) : i \notin req[r].resolved

\* The handler of request r goes on, in this step, from a fetch_chrony_data
\* that returned an error.
GoesOnFromError(r) ==
    /\ req[r].pc = "idle"
    /\ req'[r].pc # "idle"
    /\ fetch.pc = "returned"
    /\ TheVal(fetch.result).error # None

\* C30: a request whose fetch_chrony_data returned an error responds at once:
\* the dashboard without calling enrich_sources, /api/sources with 503 and
\* the error message; it starts no DNS and no GeoIP lookup, then or later,
\* and leaves both services, their caches and failure counters included, as
\* they were.
C30_NoLookupsOnFetchError ==
    [][\A r \in Requests :
          /\ GoesOnFromError(r) =>
                /\ req'[r].pc = "responded"
                /\ req'[r].route \in {"dashboard", "api_sources"}
                /\ req'[r].route = "dashboard" => req'[r].status = 200
                /\ req'[r].route = "api_sources" =>
                      /\ req'[r].status = 503
                      /\ req'[r].message = TheVal(fetch.result).error
                /\ req'[r].task = << >>
                /\ req'[r].resolved = {}
                /\ req'[r].requested = {}
                /\ ~req'[r].inflight
                /\ UNCHANGED <<dnsInstance, dnsObjs, geoInstance, geoObjs>>
          /\ req[r].pc = "responded" => req'[r] = req[r]
      ]_vars

\* C30: /api/sources answered 503 with the permission message while the
\* services hold what an earlier request left in them.
C30_Witness ==
    \E r \in Requests :
        /\ req[r].pc = "responded"
        /\ req[r].route = "api_sources"
        /\ req[r].status = 503
        /\ req[r].message = Some(PermissionMessage)
        /\ dnsInstance # 0
        /\ dnsObjs[dnsInstance].cache # << >>
        /\ dnsObjs[dnsInstance].failure_count = 1
        /\ geoInstance # 0
        /\ geoObjs[geoInstance].cache # << >>

====
